---- MODULE Spec2Model ----
(***************************************************************************)
(* A model of the splits service: the validation of a submission           *)
(* (validation.rs, models.rs), the SQLite-backed records store             *)
(* (database.rs), the new_split HTTP handler (handlers.rs) and the Discord *)
(* notification (discord.rs).                                              *)
(*                                                                         *)
(* SQL semantics kept by the model:                                        *)
(*  - created_at is CURRENT_TIMESTAMP, a wall clock read in whole seconds, *)
(*    so rows inserted within one second carry equal created_at;           *)
(*  - ORDER BY k LIMIT 1 returns some row with the extreme k; which one    *)
(*    among rows with equal k is not fixed by the query, and the model     *)
(*    lets it be any of them;                                              *)
(*  - x = NULL is never true, so "is_encumbered = ?3" matches no row when  *)
(*    the bound value or the column is NULL.                               *)
(***************************************************************************)
EXTENDS Integers, Sequences, FiniteSets, TLC

VARIABLES
    config,       \* AppState.config.validation : ValidationConfig
    splits,       \* the rows of table splits, in rowid order
    clock,        \* CURRENT_TIMESTAMP of the database, in seconds
    mutex,        \* Arc<Mutex<AppContext>>: the parties that asked for it, holder first
    discord_ctx,  \* AppContext.discord_ctx is Some(_)
    req,          \* per in-flight new_split request: its position and locals
    out,          \* the last call made directly on the store API, with its result
    vin,          \* the last submission handed to SplitData::validate, or the
                  \* split whose duration is handed to format_duration
    vout,         \* and the verdict, or the formatted text
    board,        \* the slash command in progress: its position and locals
    quiet         \* history: the number of rows inserted by new_split while
                  \* discord_ctx was None (they are the first rows of the table)

vars == <<config, splits, clock, mutex, discord_ctx, req, out, vin, vout, board, quiet>>

----------------------------------------------------------------------------
(* Bounds of the exploration *)

MaxSplits == 3
MaxClock == 1
MaxNameLen == 2
MaxSmallMs == 129

----------------------------------------------------------------------------
(* Option<T> *)

None == <<>>
Some(x) == <<x>>

----------------------------------------------------------------------------
(* config.rs *)

DefaultMaxDurationMs == 86400000
DefaultMinDurationMs == 100

ValidationConfig_default ==
    [ max_username_length |-> -1,
      username_whitelist  |-> {},
      username_blacklist  |-> {},
      max_duration_ms     |-> DefaultMaxDurationMs,
      min_duration_ms     |-> DefaultMinDurationMs ]

----------------------------------------------------------------------------
(* validation.rs: strings are sequences of one-character strings *)

Whitespace == {" "}

\* username.trim().is_empty()
TrimIsEmpty(s) == \A i \in 1..Len(s) : s[i] \in Whitespace

ToLowerChar(c) ==
    CASE c = "A" -> "a"
      [] c = "B" -> "b"
      [] OTHER   -> c

\* str::to_lowercase
to_lowercase(s) == [i \in 1..Len(s) |-> ToLowerChar(s[i])]

\* str::contains
contains(s, t) ==
    \E k \in 0..(Len(s) - Len(t)) : \A i \in 1..Len(t) : s[k + i] = t[i]

UsernameValidator_validate(username, cfg) ==
    IF TrimIsEmpty(username) THEN "InvalidUsername"
    ELSE IF cfg.max_username_length > 0 /\ Len(username) > cfg.max_username_length
         THEN "InvalidUsername"
    ELSE IF cfg.username_whitelist # {}
         THEN IF \E allowed \in cfg.username_whitelist :
                     to_lowercase(username) = to_lowercase(allowed)
              THEN "Ok" ELSE "InvalidUsername"
    ELSE IF cfg.username_blacklist # {}
         THEN IF \E prohibited \in cfg.username_blacklist :
                     contains(to_lowercase(username), to_lowercase(prohibited))
              THEN "InvalidUsername" ELSE "Ok"
    ELSE "Ok"

\* a variant that lets a zero duration through
DurationValidator_validate_strict(duration_ms, cfg) ==
    IF duration_ms < 0 THEN "InvalidDuration"
    ELSE IF duration_ms > cfg.max_duration_ms THEN "InvalidDuration"
    ELSE IF duration_ms < cfg.min_duration_ms THEN "InvalidDuration"
    ELSE "Ok"

DurationValidator_validate(duration_ms, cfg) ==
    IF duration_ms <= 0 THEN "InvalidDuration"
    ELSE IF duration_ms > cfg.max_duration_ms THEN "InvalidDuration"
    ELSE IF duration_ms < cfg.min_duration_ms THEN "InvalidDuration"
    ELSE "Ok"

\* i32 division and remainder: the quotient is truncated towards zero and the
\* remainder has the sign of the dividend
TruncDiv(a, b) == IF a >= 0 THEN a \div b ELSE -((-a) \div b)
TruncRem(a, b) == a - b * TruncDiv(a, b)

DigitChars == <<"0", "1", "2", "3", "4", "5", "6", "7", "8", "9">>

RECURSIVE NatDisplay(_)
\* Display of a value n >= 0
NatDisplay(n) ==
    IF n < 10 THEN <<DigitChars[n + 1]>>
    ELSE NatDisplay(n \div 10) \o <<DigitChars[(n % 10) + 1]>>

\* "{}" of an i32
Display(n) == IF n < 0 THEN <<"-">> \o NatDisplay(-n) ELSE NatDisplay(n)

\* s, of digits, filled with zeros on the left up to width w
ZeroFill(s, w) == [i \in 1..(IF w > Len(s) THEN w - Len(s) ELSE 0) |-> "0"] \o s

\* "{:0w}" of an i32: the sign first and counted in the width
DisplayPadded(n, w) ==
    IF n < 0 THEN <<"-">> \o ZeroFill(NatDisplay(-n), w - 1)
    ELSE ZeroFill(NatDisplay(n), w)

\* a variant that does not pad the seconds after the minutes
format_duration_unpadded_seconds(duration_ms) ==
    LET total_seconds == TruncDiv(duration_ms, 1000)
        minutes       == TruncDiv(total_seconds, 60)
        seconds       == TruncRem(total_seconds, 60)
        milliseconds  == TruncRem(duration_ms, 1000)
    IN  IF minutes > 0
        THEN Display(minutes) \o <<"m">> \o Display(seconds) \o <<".">>
                 \o DisplayPadded(milliseconds, 3) \o <<"s">>
        ELSE IF seconds > 0
        THEN Display(seconds) \o <<".">> \o DisplayPadded(milliseconds, 3) \o <<"s">>
        ELSE Display(milliseconds) \o <<"m", "s">>

\* DurationValidator::format_duration
format_duration(duration_ms) ==
    LET total_seconds == TruncDiv(duration_ms, 1000)
        minutes       == TruncDiv(total_seconds, 60)
        seconds       == TruncRem(total_seconds, 60)
        milliseconds  == TruncRem(duration_ms, 1000)
    IN  IF minutes > 0
        THEN Display(minutes) \o <<"m">> \o DisplayPadded(seconds, 2) \o <<".">>
                 \o DisplayPadded(milliseconds, 3) \o <<"s">>
        ELSE IF seconds > 0
        THEN Display(seconds) \o <<".">> \o DisplayPadded(milliseconds, 3) \o <<"s">>
        ELSE Display(milliseconds) \o <<"m", "s">>

FieldValidator_validate_boolean(field_name) ==
    IF field_name \in {"is_down", "is_elevator", "is_encumbered"}
    THEN "Ok" ELSE "FieldValidation"

----------------------------------------------------------------------------
(* models.rs *)

\* a variant that accepts an encumbrance on an elevator split
SplitData_validate_any_encumbrance(data, cfg) ==
    IF UsernameValidator_validate(data.user, cfg) # "Ok"
    THEN UsernameValidator_validate(data.user, cfg)
    ELSE IF DurationValidator_validate(data.duration_ms, cfg) # "Ok"
    THEN DurationValidator_validate(data.duration_ms, cfg)
    ELSE IF data.is_encumbered # None
    THEN FieldValidator_validate_boolean("is_encumbered")
    ELSE "Ok"

SplitData_validate(data, cfg) ==
    IF UsernameValidator_validate(data.user, cfg) # "Ok"
    THEN UsernameValidator_validate(data.user, cfg)
    ELSE IF DurationValidator_validate(data.duration_ms, cfg) # "Ok"
    THEN DurationValidator_validate(data.duration_ms, cfg)
    ELSE IF FieldValidator_validate_boolean("is_down") # "Ok"
    THEN FieldValidator_validate_boolean("is_down")
    ELSE IF FieldValidator_validate_boolean("is_elevator") # "Ok"
    THEN FieldValidator_validate_boolean("is_elevator")
    ELSE IF data.is_encumbered # None
    THEN IF data.is_elevator THEN "FieldValidation"
         ELSE FieldValidator_validate_boolean("is_encumbered")
    ELSE "Ok"

----------------------------------------------------------------------------
(* database.rs: the table and its queries *)

Rows(tbl) == 1..Len(tbl)

\* SQL "a = b": never true when either side is NULL
SqlEq(a, b) == a # None /\ b # None /\ a = b

\* ORDER BY created_at DESC LIMIT 1 over the rows S: the rows it may return
LatestCreated(tbl, S) ==
    {i \in S : \A j \in S : tbl[j].created_at <= tbl[i].created_at}

\* ORDER BY duration_ms ASC LIMIT 1 over the rows S
LowestDuration(tbl, S) ==
    {i \in S : \A j \in S : tbl[i].duration_ms <= tbl[j].duration_ms}

\* ORDER BY duration_ms DESC LIMIT 1 over the rows S
HighestDuration(tbl, S) ==
    {i \in S : \A j \in S : tbl[j].duration_ms <= tbl[i].duration_ms}

\* ORDER BY created_at DESC: the orders in which get_all_splits may return
\* the rows
get_all_splits(tbl) ==
    {v \in [Rows(tbl) -> Rows(tbl)] :
        /\ \A m, n \in Rows(tbl) : m # n => v[m] # v[n]
        /\ \A m, n \in Rows(tbl) :
              m < n => tbl[v[m]].created_at >= tbl[v[n]].created_at}

\* the rows get_most_recent_split may return (0: Ok(None))
get_most_recent_split(tbl) ==
    IF Rows(tbl) = {} THEN {0} ELSE LatestCreated(tbl, Rows(tbl))

\* a variant that counts the rows with a higher duration
BetterCount_inverted(tbl, split) ==
    IF split.is_elevator
    THEN Cardinality({i \in Rows(tbl) :
            /\ tbl[i].is_down = split.is_down
            /\ tbl[i].is_elevator = split.is_elevator
            /\ tbl[i].duration_ms > split.duration_ms})
    ELSE Cardinality({i \in Rows(tbl) :
            /\ tbl[i].is_down = split.is_down
            /\ tbl[i].is_elevator = split.is_elevator
            /\ SqlEq(tbl[i].is_encumbered, split.is_encumbered)
            /\ tbl[i].duration_ms > split.duration_ms})

\* COUNT(*) of the rows with a strictly better duration
BetterCount(tbl, split) ==
    IF split.is_elevator
    THEN Cardinality({i \in Rows(tbl) :
            /\ tbl[i].is_down = split.is_down
            /\ tbl[i].is_elevator = split.is_elevator
            /\ tbl[i].duration_ms < split.duration_ms})
    ELSE Cardinality({i \in Rows(tbl) :
            /\ tbl[i].is_down = split.is_down
            /\ tbl[i].is_elevator = split.is_elevator
            /\ SqlEq(tbl[i].is_encumbered, split.is_encumbered)
            /\ tbl[i].duration_ms < split.duration_ms})

is_world_record(tbl, split) == BetterCount(tbl, split) = 0

\* a variant that looks only at the user's splits of the submission's
\* direction, transport and encumbrance
LastDuration_per_category(tbl, data) ==
    LET mine == {i \in Rows(tbl) :
                    /\ tbl[i].user = data.user
                    /\ tbl[i].is_down = data.is_down
                    /\ tbl[i].is_elevator = data.is_elevator
                    /\ tbl[i].is_encumbered = data.is_encumbered}
    IN  IF mine = {} THEN {None}
        ELSE {Some(tbl[i].duration_ms) : i \in LatestCreated(tbl, mine)}

\* the values last_duration may take
LastDuration(tbl, data) ==
    LET mine == {i \in Rows(tbl) : tbl[i].user = data.user}
    IN  IF mine = {} THEN {None}
        ELSE {Some(tbl[i].duration_ms) : i \in LatestCreated(tbl, mine)}

\* the verdicts is_duplicate_entry may return
is_duplicate_entry(tbl, data) ==
    {last = Some(data.duration_ms) : last \in LastDuration(tbl, data)}

\* a variant that gives every row the first identifier
InsertRow_first_id(tbl, data, now) ==
    Append(tbl, [ id            |-> 1,
                  user          |-> data.user,
                  is_down       |-> data.is_down,
                  is_elevator   |-> data.is_elevator,
                  is_encumbered |-> data.is_encumbered,
                  duration_ms   |-> data.duration_ms,
                  created_at    |-> now ])

\* INSERT INTO splits (...): id by AUTOINCREMENT, created_at by default
InsertRow(tbl, data, now) ==
    Append(tbl, [ id            |-> Len(tbl) + 1,
                  user          |-> data.user,
                  is_down       |-> data.is_down,
                  is_elevator   |-> data.is_elevator,
                  is_encumbered |-> data.is_encumbered,
                  duration_ms   |-> data.duration_ms,
                  created_at    |-> now ])

\* a variant that lists up-elevator before down-elevator
categories_swapped ==
    << [is_down |-> FALSE, is_elevator |-> TRUE,  is_encumbered |-> None],
       [is_down |-> TRUE,  is_elevator |-> TRUE,  is_encumbered |-> None],
       [is_down |-> TRUE,  is_elevator |-> FALSE, is_encumbered |-> Some(TRUE)],
       [is_down |-> TRUE,  is_elevator |-> FALSE, is_encumbered |-> Some(FALSE)],
       [is_down |-> FALSE, is_elevator |-> FALSE, is_encumbered |-> Some(TRUE)],
       [is_down |-> FALSE, is_elevator |-> FALSE, is_encumbered |-> Some(FALSE)] >>

\* let categories = [...]
categories ==
    << [is_down |-> TRUE,  is_elevator |-> TRUE,  is_encumbered |-> None],
       [is_down |-> FALSE, is_elevator |-> TRUE,  is_encumbered |-> None],
       [is_down |-> TRUE,  is_elevator |-> FALSE, is_encumbered |-> Some(TRUE)],
       [is_down |-> TRUE,  is_elevator |-> FALSE, is_encumbered |-> Some(FALSE)],
       [is_down |-> FALSE, is_elevator |-> FALSE, is_encumbered |-> Some(TRUE)],
       [is_down |-> FALSE, is_elevator |-> FALSE, is_encumbered |-> Some(FALSE)] >>

\* the WHERE clause of the per-category query
CategoryRows(tbl, cat) ==
    IF cat.is_elevator
    THEN {i \in Rows(tbl) :
            /\ tbl[i].is_down = cat.is_down
            /\ tbl[i].is_elevator = cat.is_elevator}
    ELSE {i \in Rows(tbl) :
            /\ tbl[i].is_down = cat.is_down
            /\ tbl[i].is_elevator = cat.is_elevator
            /\ SqlEq(tbl[i].is_encumbered, cat.is_encumbered)}

\* the rows one iteration of get_world_records may fetch (0: no row)
WorldRecordRow(tbl, cat) ==
    IF CategoryRows(tbl, cat) = {} THEN {0}
    ELSE LowestDuration(tbl, CategoryRows(tbl, cat))

\* the rows one iteration of get_slowest_records may fetch (0: no row)
SlowestRecordRow(tbl, cat) ==
    IF CategoryRows(tbl, cat) = {} THEN {0}
    ELSE HighestDuration(tbl, CategoryRows(tbl, cat))

\* if let Some(row) = row { records.push(...) }
Push(acc, i) == IF i = 0 THEN acc ELSE Append(acc, i)

RECURSIVE WorldRecordsFrom(_, _, _)
\* the loop over categories from index k on, with acc pushed so far:
\* the vectors (of row ids) it may end with
WorldRecordsFrom(tbl, k, acc) ==
    IF k > Len(categories) THEN {acc}
    ELSE UNION { WorldRecordsFrom(tbl, k + 1, Push(acc, i)) :
                 i \in WorldRecordRow(tbl, categories[k]) }

get_world_records(tbl) == WorldRecordsFrom(tbl, 1, <<>>)

RECURSIVE SlowestRecordsFrom(_, _, _)
SlowestRecordsFrom(tbl, k, acc) ==
    IF k > Len(categories) THEN {acc}
    ELSE UNION { SlowestRecordsFrom(tbl, k + 1, Push(acc, i)) :
                 i \in SlowestRecordRow(tbl, categories[k]) }

get_slowest_records(tbl) == SlowestRecordsFrom(tbl, 1, <<>>)

----------------------------------------------------------------------------
(* The inputs explored *)

Requests == {1, 2}

\* the Handler::ready callback, as a party of the mutex
ReadyHandler == 0

UserA == <<"A">>
UserB == <<"B">>

SplitData(u, d, e, ms, enc) ==
    [user |-> u, is_down |-> d, is_elevator |-> e, duration_ms |-> ms,
     is_encumbered |-> enc]

\* JSON bodies posted to /api/v0/split/new while requests overlap: two users,
\* two durations, an elevator and a stairs category, and two bodies that
\* validation refuses
Submissions ==
    { SplitData(u, TRUE, e, ms, IF e THEN None ELSE Some(TRUE)) :
        u \in {UserA, UserB}, e \in BOOLEAN, ms \in {1000, 2000} }
    \cup { SplitData(UserA, TRUE, FALSE, 0, None),
           SplitData(UserB, TRUE, TRUE, 1000, Some(FALSE)) }

NoData == SplitData(<<>>, FALSE, FALSE, 0, None)

\* a request slot with no request in it
IdleRequest ==
    [ pc       |-> "idle",
      data     |-> NoData,
      res      |-> "none",   \* what insert_split returned
      resp     |-> "none",   \* the StatusCode of the Response
      body     |-> "none",   \* the text of the Response
      recent   |-> 0,        \* id of the split get_most_recent_split returned
      is_wr    |-> "none",   \* what is_world_record returned
      delivery |-> "none",   \* what send_message returned
      seen     |-> 0,        \* history: number of rows when the duplicate check ran
      inserted |-> 0,        \* history: id of the row this request inserted
      rival    |-> FALSE ]   \* history: an overlapping request with the same user
                             \* and duration has inserted its row

\* requests that may still insert a row
Pending == {r \in Requests : req[r].pc \in {"lock", "insert"}}

NoCall == [op |-> "none", arg |-> 0, val |-> 0]

\* no slash command in progress
NoBoard == [pc |-> "idle", kind |-> "none", k |-> 1, records |-> <<>>, from |-> 0]

----------------------------------------------------------------------------
(* Initial state: a fresh database, the default policy, no Discord session *)

Init ==
    /\ config = ValidationConfig_default
    /\ splits = <<>>
    /\ clock = 0
    /\ mutex = <<>>
    /\ discord_ctx = FALSE
    /\ req = [r \in Requests |-> IdleRequest]
    /\ out = NoCall
    /\ vin = NoData
    /\ vout = "none"
    /\ board = NoBoard
    /\ quiet = 0

----------------------------------------------------------------------------
(* tokio::sync::Mutex: fair, lock() is granted in the order requested.     *)
(* mutex is the queue of parties; its head holds the lock.                 *)

Holds(p) == mutex # <<>> /\ Head(mutex) = p

\* a variant in which the guard is never dropped
Unlock_leaked(p) == mutex

\* drop(MutexGuard)
Unlock(p) == IF Holds(p) THEN Tail(mutex) ELSE mutex

\* p has asked for the lock and not yet released it
InQueue(p) == \E i \in 1..Len(mutex) : mutex[i] = p

----------------------------------------------------------------------------
(* The wall clock of CURRENT_TIMESTAMP advances by a second *)

Tick ==
    /\ clock < MaxClock
    /\ clock' = clock + 1
    /\ UNCHANGED <<config, splits, mutex, discord_ctx, req, out, vin, vout, board, quiet>>

----------------------------------------------------------------------------
(* discord.rs, Handler::ready *)

ReadyEvent ==
    /\ \A i \in 1..Len(mutex) : mutex[i] # ReadyHandler
    /\ mutex' = Append(mutex, ReadyHandler)
    /\ UNCHANGED <<config, splits, clock, discord_ctx, req, out, vin, vout, board, quiet>>

ReadySet ==
    /\ Holds(ReadyHandler)
    /\ discord_ctx' = TRUE
    /\ mutex' = Unlock(ReadyHandler)
    /\ UNCHANGED <<config, splits, clock, req, out, vin, vout, board, quiet>>

----------------------------------------------------------------------------
(* handlers.rs, new_split, with the calls it makes *)

\* a variant that skips data.validate(..)
NewSplit_unvalidated(r, data) ==
    /\ req[r].pc = "idle"
    /\ Len(splits) + Cardinality(Pending) < MaxSplits
    /\ req' = [req EXCEPT ![r] = [IdleRequest EXCEPT !.pc = "lock", !.data = data]]
    /\ mutex' = Append(mutex, r)
    /\ UNCHANGED <<config, splits, clock, discord_ctx, out, vin, vout, board, quiet>>

\* the request arrives: data.validate(..), then context.lock() is requested
NewSplit(r, data) ==
    /\ req[r].pc = "idle"
    /\ Len(splits) + Cardinality(Pending) < MaxSplits
    /\ IF SplitData_validate(data, config) # "Ok"
       THEN /\ req' = [req EXCEPT ![r] = [IdleRequest EXCEPT
                          !.pc = "respond", !.data = data, !.resp = "BAD_REQUEST",
                          !.body = <<"Validation failed: ",
                                     SplitData_validate(data, config)>>]]
            /\ mutex' = mutex
       ELSE /\ req' = [req EXCEPT ![r] = [IdleRequest EXCEPT
                          !.pc = "lock", !.data = data]]
            /\ mutex' = Append(mutex, r)
    /\ UNCHANGED <<config, splits, clock, discord_ctx, out, vin, vout, board, quiet>>

\* the arm Err(e) of match insert_split(..)
InsertFailed(r, e) ==
    [req[r] EXCEPT !.pc = "respond", !.res = e, !.resp = "INTERNAL_SERVER_ERROR",
                   !.body = "Error inserting data"]

\* (StatusCode::CREATED, "Data inserted successfully!").into_response()
Created(q) ==
    [q EXCEPT !.pc = "respond", !.resp = "CREATED",
              !.body = "Data inserted successfully!"]

\* context.lock().await returns; insert_split: is_duplicate_entry(pool, data).await?
DuplicateCheck(r) ==
    /\ req[r].pc = "lock"
    /\ Holds(r)
    /\ \/ \E dup \in is_duplicate_entry(splits, req[r].data) :
             req' = [req EXCEPT ![r] =
                        IF dup
                        THEN [InsertFailed(r, "DuplicateEntry") EXCEPT
                                 !.seen = Len(splits)]
                        ELSE [req[r] EXCEPT !.pc = "insert", !.seen = Len(splits)]]
       \/ req' = [req EXCEPT ![r] = InsertFailed(r, "Database")]
    /\ UNCHANGED <<config, splits, clock, mutex, discord_ctx, out, vin, vout, board, quiet>>

\* insert_split: the INSERT, then the arm Ok(_): the test of discord_ctx and,
\* with no Discord session, the Response
Insert(r) ==
    /\ req[r].pc = "insert"
    /\ \/ /\ splits' = InsertRow(splits, req[r].data, clock)
          /\ quiet' = IF discord_ctx THEN quiet ELSE Len(splits) + 1
          /\ req' = [q \in Requests |->
                       IF q = r
                       THEN IF discord_ctx
                            THEN [req[r] EXCEPT !.pc = "notify", !.res = "Ok",
                                                !.inserted = Len(splits) + 1]
                            ELSE Created([req[r] EXCEPT
                                             !.res = "Ok",
                                             !.inserted = Len(splits) + 1])
                       ELSE IF /\ req[q].pc = "lock"
                               /\ req[q].data.user = req[r].data.user
                               /\ req[q].data.duration_ms = req[r].data.duration_ms
                            THEN [req[q] EXCEPT !.rival = TRUE]
                            ELSE req[q]]
       \/ /\ splits' = splits
          /\ quiet' = quiet
          /\ req' = [req EXCEPT ![r] = InsertFailed(r, "Database")]
    /\ UNCHANGED <<config, clock, mutex, discord_ctx, out, vin, vout, board>>

\* a variant that raises a failed delivery to the caller, which answers with
\* the status of a failed insert
SendSplitToDiscord_raising(r) ==
    /\ req[r].pc = "notify"
    /\ \E i \in get_most_recent_split(splits) :
          /\ i # 0
          /\ \/ req' = [req EXCEPT ![r] = Created([req[r] EXCEPT
                          !.recent = i,
                          !.is_wr = IF is_world_record(splits, splits[i])
                                    THEN "true" ELSE "false",
                          !.delivery = "ok"])]
             \/ req' = [req EXCEPT ![r] = [req[r] EXCEPT
                          !.recent = i,
                          !.is_wr = IF is_world_record(splits, splits[i])
                                    THEN "true" ELSE "false",
                          !.delivery = "err",
                          !.pc = "respond",
                          !.resp = "INTERNAL_SERVER_ERROR",
                          !.body = "Error inserting data"]]
    /\ UNCHANGED <<config, splits, clock, mutex, discord_ctx, out, vin, vout, board, quiet>>

\* send_split_to_discord, whole: get_most_recent_split, is_world_record and
\* send_message, each of which may fail and is then only logged; then the
\* Response of the arm Ok(_)
SendSplitToDiscord(r) ==
    /\ req[r].pc = "notify"
    /\ \/ \E i \in get_most_recent_split(splits) :
             IF i = 0
             THEN req' = [req EXCEPT ![r] = Created(req[r])]
             ELSE \/ \E d \in {"ok", "err"} :
                        req' = [req EXCEPT ![r] = Created([req[r] EXCEPT
                                  !.recent = i,
                                  !.is_wr =
                                      IF is_world_record(splits, splits[i])
                                      THEN "true" ELSE "false",
                                  !.delivery = d])]
                  \/ req' = [req EXCEPT ![r] = Created([req[r] EXCEPT
                                  !.recent = i, !.is_wr = "err"])]
       \/ req' = [req EXCEPT ![r] = Created(req[r])]
    /\ UNCHANGED <<config, splits, clock, mutex, discord_ctx, out, vin, vout, board, quiet>>

\* the Response is returned and the MutexGuard dropped
Return(r) ==
    /\ req[r].pc = "respond"
    /\ req' = [req EXCEPT ![r] = IdleRequest]
    /\ mutex' = Unlock(r)
    /\ UNCHANGED <<config, splits, clock, discord_ctx, out, vin, vout, board, quiet>>

Next ==
    \/ Tick
    \/ ReadyEvent
    \/ ReadySet
    \/ \E r \in Requests, data \in Submissions : NewSplit(r, data)
    \/ \E r \in Requests : DuplicateCheck(r)
    \/ \E r \in Requests : Insert(r)
    \/ \E r \in Requests : SendSplitToDiscord(r)
    \/ \E r \in Requests : Return(r)

Spec == Init /\ [][Next]_vars

----------------------------------------------------------------------------
(* handlers.rs, all_splits *)

\* the all_splits request, as a party of the mutex
AllSplitsHandler == 3

\* the request arrives and context.lock() is requested
AllSplitsRequest ==
    /\ ~InQueue(AllSplitsHandler)
    /\ mutex' = Append(mutex, AllSplitsHandler)
    /\ UNCHANGED <<config, splits, clock, discord_ctx, req, out, vin, vout, board, quiet>>

\* context.lock().await returns; get_all_splits; the text is returned and the
\* MutexGuard dropped. val: the splits listed; arg: 1 when the text is
\* "Error retrieving splits" instead
AllSplits ==
    /\ Holds(AllSplitsHandler)
    /\ \/ \E v \in get_all_splits(splits) :
             out' = [op |-> "all_splits", arg |-> 0, val |-> v]
       \/ out' = [op |-> "all_splits", arg |-> 1, val |-> <<>>]
    /\ mutex' = Unlock(AllSplitsHandler)
    /\ UNCHANGED <<config, splits, clock, discord_ctx, req, vin, vout, board, quiet>>

----------------------------------------------------------------------------
(* The requests that take the mutex, under fair scheduling: once a task can *)
(* run its next step (the lock is granted to it, a store call or a delivery *)
(* has returned) the runtime eventually runs it. Requests keep arriving or  *)
(* not, as the clients please.                                              *)

\* the bodies posted: one that is accepted (and, repeated, is a duplicate) and
\* one that validation refuses
FairSubmissions ==
    { SplitData(UserA, TRUE, TRUE, 1000, None),
      SplitData(UserB, TRUE, TRUE, 1000, Some(FALSE)) }

NextFair ==
    \/ Tick
    \/ ReadyEvent
    \/ ReadySet
    \/ AllSplitsRequest
    \/ AllSplits
    \/ \E r \in Requests, data \in FairSubmissions : NewSplit(r, data)
    \/ \E r \in Requests : DuplicateCheck(r)
    \/ \E r \in Requests : Insert(r)
    \/ \E r \in Requests : SendSplitToDiscord(r)
    \/ \E r \in Requests : Return(r)

SpecFair ==
    /\ Init
    /\ [][NextFair]_vars
    /\ WF_vars(ReadySet)
    /\ WF_vars(AllSplits)
    /\ \A r \in Requests :
          /\ WF_vars(DuplicateCheck(r))
          /\ WF_vars(Insert(r))
          /\ WF_vars(SendSplitToDiscord(r))
          /\ WF_vars(Return(r))

----------------------------------------------------------------------------
(* The store API of database.rs called by one caller at a time, on the      *)
(* submissions of one user that validation accepts: every direction,        *)
(* transport and encumbrance, two durations                                 *)

StoreSubmissions ==
    { d \in { SplitData(UserA, dn, e, ms, enc) :
                dn \in BOOLEAN, e \in BOOLEAN,
                ms \in {1000, 2000}, enc \in {None, Some(TRUE), Some(FALSE)} } :
        SplitData_validate(d, config) = "Ok" }

\* insert_split(pool, &data), whole
StoreInsertSplit(data) ==
    /\ Len(splits) < MaxSplits
    /\ \/ \E dup \in is_duplicate_entry(splits, data) :
             IF dup
             THEN /\ splits' = splits
                  /\ out' = [op |-> "insert_split", arg |-> 0,
                             val |-> "DuplicateEntry"]
             ELSE /\ splits' = InsertRow(splits, data, clock)
                  /\ out' = [op |-> "insert_split", arg |-> 0, val |-> "Ok"]
       \/ /\ splits' = splits
          /\ out' = [op |-> "insert_split", arg |-> 0, val |-> "Database"]
    /\ UNCHANGED <<config, clock, mutex, discord_ctx, req, vin, vout, board, quiet>>

\* get_all_splits(pool), whole
StoreGetAllSplits ==
    /\ \E v \in get_all_splits(splits) :
          out' = [op |-> "get_all_splits", arg |-> 0, val |-> v]
    /\ UNCHANGED <<config, splits, clock, mutex, discord_ctx, req, vin, vout, board, quiet>>

\* get_most_recent_split(pool), whole
StoreGetMostRecentSplit ==
    /\ \E i \in get_most_recent_split(splits) :
          out' = [op |-> "get_most_recent_split", arg |-> 0, val |-> i]
    /\ UNCHANGED <<config, splits, clock, mutex, discord_ctx, req, vin, vout, board, quiet>>

\* is_world_record(pool, &split) on a split read from the table
StoreIsWorldRecord(i) ==
    /\ out' = [op |-> "is_world_record", arg |-> i,
               val |-> is_world_record(splits, splits[i])]
    /\ UNCHANGED <<config, splits, clock, mutex, discord_ctx, req, vin, vout, board, quiet>>

\* get_world_records(pool), whole
StoreGetWorldRecords ==
    /\ \E v \in get_world_records(splits) :
          out' = [op |-> "get_world_records", arg |-> 0, val |-> v]
    /\ UNCHANGED <<config, splits, clock, mutex, discord_ctx, req, vin, vout, board, quiet>>

\* get_slowest_records(pool), whole
StoreGetSlowestRecords ==
    /\ \E v \in get_slowest_records(splits) :
          out' = [op |-> "get_slowest_records", arg |-> 0, val |-> v]
    /\ UNCHANGED <<config, splits, clock, mutex, discord_ctx, req, vin, vout, board, quiet>>

NextStore ==
    \/ Tick
    \/ \E data \in StoreSubmissions : StoreInsertSplit(data)
    \/ StoreGetAllSplits
    \/ StoreGetMostRecentSplit
    \/ \E i \in Rows(splits) : StoreIsWorldRecord(i)
    \/ StoreGetWorldRecords
    \/ StoreGetSlowestRecords

SpecStore == Init /\ [][NextStore]_vars

----------------------------------------------------------------------------
(* commands.rs: a slash command, /wrboard or /slowboard, runs                *)
(* get_world_records or get_slowest_records on its own clone of the pool,   *)
(* without the mutex, one query per category, while splits are inserted     *)

\* the submissions inserted meanwhile: the two elevator categories
BoardSubmissions ==
    { SplitData(UserA, dn, TRUE, ms, None) : dn \in BOOLEAN, ms \in {1000, 2000} }

\* the command is invoked: ctx.defer(), then the loop over categories starts
BoardCommand(kind) ==
    /\ board.pc = "idle"
    /\ board' = [pc |-> "query", kind |-> kind, k |-> 1, records |-> <<>>,
                 from |-> Len(splits)]
    /\ UNCHANGED <<config, splits, clock, mutex, discord_ctx, req, out, vin, vout, quiet>>

\* one iteration of the loop: the query of categories[k], then the push; or
\* the query fails and the function returns Err
BoardQuery ==
    /\ board.pc = "query"
    /\ \/ \E i \in IF board.kind = "wrboard"
                    THEN WorldRecordRow(splits, categories[board.k])
                    ELSE SlowestRecordRow(splits, categories[board.k]) :
             board' = [board EXCEPT
                          !.records = Push(board.records, i),
                          !.k = board.k + 1,
                          !.pc = IF board.k = Len(categories) THEN "done" ELSE "query"]
       \/ board' = [board EXCEPT !.pc = "failed"]
    /\ UNCHANGED <<config, splits, clock, mutex, discord_ctx, req, out, vin, vout, quiet>>

\* the reply is sent (or the error returned) and the command ends
BoardReply ==
    /\ board.pc \in {"done", "failed"}
    /\ board' = NoBoard
    /\ UNCHANGED <<config, splits, clock, mutex, discord_ctx, req, out, vin, vout, quiet>>

NextBoard ==
    \/ Tick
    \/ \E data \in BoardSubmissions : StoreInsertSplit(data)
    \/ \E kind \in {"wrboard", "slowboard"} : BoardCommand(kind)
    \/ BoardQuery
    \/ BoardReply

SpecBoard == Init /\ [][NextBoard]_vars

----------------------------------------------------------------------------
(* SplitData::validate as a function of the submission and the policy *)

Chars == {" ", "a", "A", "b"}

\* user identifiers of at most MaxNameLen characters
Names == UNION { [1..n -> Chars] : n \in 0..MaxNameLen }

Policies ==
    [ max_username_length : {-1, 0, 1, 2},
      username_whitelist  : { {}, {<<"a">>} },
      username_blacklist  : { {}, {<<"b">>} },
      max_duration_ms     : {2000, DefaultMaxDurationMs},
      min_duration_ms     : {0, DefaultMinDurationMs} ]

ValidateInputs ==
    { SplitData(u, dn, e, ms, enc) :
        u \in Names, dn \in BOOLEAN, e \in BOOLEAN,
        ms \in {-1, 0, 99, 1000, 2000, 86400001},
        enc \in {None, Some(TRUE), Some(FALSE)} }

InitValidate ==
    /\ config \in Policies
    /\ vin \in ValidateInputs
    /\ vout = "none"
    /\ splits = <<>>
    /\ clock = 0
    /\ mutex = <<>>
    /\ discord_ctx = FALSE
    /\ req = [r \in Requests |-> IdleRequest]
    /\ out = NoCall
    /\ board = NoBoard
    /\ quiet = 0

\* data.validate(&config.validation)
Validate ==
    /\ vout = "none"
    /\ vout' = SplitData_validate(vin, config)
    /\ UNCHANGED <<config, splits, clock, mutex, discord_ctx, req, out, vin, board, quiet>>

NextValidate == Validate

SpecValidate == InitValidate /\ [][NextValidate]_vars

----------------------------------------------------------------------------
(* DurationValidator::format_duration as a function of the duration of a    *)
(* split: the small durations, those around each change of unit, and some  *)
(* no validated split can have. The text is a sequence of characters, empty *)
(* until the function has returned                                         *)

FormatInputs ==
    (0..MaxSmallMs)
    \cup {999, 1000, 1001, 5000, 9999, 10000, 59999, 60000, 60001, 65432,
          600000, 3599999, 3600000, 86400000, 2147483647}
    \cup {-1, -42, -1000, -65432}

InitFormat ==
    /\ config = ValidationConfig_default
    /\ vin \in {SplitData(UserA, TRUE, TRUE, ms, None) : ms \in FormatInputs}
    /\ vout = <<>>
    /\ splits = <<>>
    /\ clock = 0
    /\ mutex = <<>>
    /\ discord_ctx = FALSE
    /\ req = [r \in Requests |-> IdleRequest]
    /\ out = NoCall
    /\ board = NoBoard
    /\ quiet = 0

\* DurationValidator::format_duration(split.duration_ms)
Format ==
    /\ vout = <<>>
    /\ vout' = format_duration(vin.duration_ms)
    /\ UNCHANGED <<config, splits, clock, mutex, discord_ctx, req, out, vin, board, quiet>>

NextFormat == Format

SpecFormat == InitFormat /\ [][NextFormat]_vars

----------------------------------------------------------------------------
(* Properties *)

\* requests for which insert_split has returned Ok or DuplicateEntry
Decided == {r \in Requests : req[r].res \in {"Ok", "DuplicateEntry"}}

\* the most recently created of the first n rows that belong to user u (0: none)
LastOf(tbl, n, u) ==
    LET mine == {i \in 1..n : tbl[i].user = u}
    IN  IF mine = {} THEN 0 ELSE CHOOSE i \in mine : \A j \in mine : j <= i

\* C1: insert_split fails with DuplicateEntry, leaving the rows as they were,
\* exactly when the user's most recently created split has the submitted
\* duration; otherwise it succeeds and adds exactly one row, that submission
C1_DuplicateVerdict ==
    \A r \in Decided :
        LET n    == req[r].seen
            data == req[r].data
            last == LastOf(splits, n, data.user)
            same == last # 0 /\ splits[last].duration_ms = data.duration_ms
        IN  /\ (req[r].res = "DuplicateEntry") <=> same
            /\ req[r].res = "DuplicateEntry" => Len(splits) = n
            /\ req[r].res = "Ok" =>
                  /\ Len(splits) = n + 1
                  /\ splits[n + 1].user = data.user
                  /\ splits[n + 1].duration_ms = data.duration_ms

\* no row is inserted between a request's duplicate check and its INSERT
CheckThenInsertAtomic ==
    \A r \in Requests : req[r].pc = "insert" => Len(splits) = req[r].seen

\* C2: of the new_split requests in flight together, two by the same user with
\* the same duration never both succeed: a request that waited for the mutex
\* while such a request inserted its row is not answered Ok itself
C2_ConcurrentDuplicatesNeverBothSucceed ==
    \A r \in Requests : req[r].rival => req[r].res # "Ok"

\* same direction, same transport and, for stairs, the same encumbrance value
\* (both unset included)
SameCategory(a, b) ==
    /\ a.is_down = b.is_down
    /\ a.is_elevator = b.is_elevator
    /\ a.is_elevator \/ a.is_encumbered = b.is_encumbered

\* C3: is_world_record(s) is true iff no other persisted split of s's category
\* has a strictly lower duration than s
C3_IsWorldRecordIff ==
    out.op = "is_world_record" =>
        (out.val <=>
            ~ \E j \in Rows(splits) \ {out.arg} :
                 /\ SameCategory(splits[j], splits[out.arg])
                 /\ splits[j].duration_ms < splits[out.arg].duration_ms)

\* equal direction, transport and encumbrance
EqualTriple(a, b) ==
    /\ a.is_down = b.is_down
    /\ a.is_elevator = b.is_elevator
    /\ a.is_encumbered = b.is_encumbered

Pairs == {p \in Rows(splits) \X Rows(splits) :
            p[1] # p[2] /\ EqualTriple(splits[p[1]], splits[p[2]])}

WR(i) == is_world_record(splits, splits[i])

InCategory(k) ==
    {i \in Rows(splits) :
        /\ splits[i].is_down = categories[k].is_down
        /\ splits[i].is_elevator = categories[k].is_elevator
        /\ splits[i].is_elevator \/ splits[i].is_encumbered = categories[k].is_encumbered}

Elems(v) == {v[n] : n \in 1..Len(v)}

\* row i was created strictly before row j
CreatedBefore(i, j) == splits[i].created_at < splits[j].created_at

\* C5: get_world_records returns, for each of the six categories that has a
\* split, exactly one split of it, of minimum duration and, among those of that
\* duration, created earliest; nothing for a category without splits
C5_BestPerCategory ==
    out.op = "get_world_records" =>
        \A k \in 1..6 :
            LET S   == InCategory(k)
                got == Elems(out.val) \cap S
            IN  /\ S = {} => got = {}
                /\ S # {} =>
                     /\ Cardinality(got) = 1
                     /\ \A i \in got, j \in S :
                           /\ splits[i].duration_ms <= splits[j].duration_ms
                           /\ splits[i].duration_ms = splits[j].duration_ms
                                 => ~CreatedBefore(j, i)

\* C6: get_slowest_records returns, for each of the six categories that has a
\* split, exactly one split of it, of maximum duration and, among those of that
\* duration, created earliest; nothing for a category without splits
C6_WorstPerCategory ==
    out.op = "get_slowest_records" =>
        \A k \in 1..6 :
            LET S   == InCategory(k)
                got == Elems(out.val) \cap S
            IN  /\ S = {} => got = {}
                /\ S # {} =>
                     /\ Cardinality(got) = 1
                     /\ \A i \in got, j \in S :
                           /\ splits[i].duration_ms >= splits[j].duration_ms
                           /\ splits[i].duration_ms = splits[j].duration_ms
                                 => ~CreatedBefore(j, i)

\* place of a split in the display order down-elevator, up-elevator,
\* down-stairs-encumbered, down-stairs-unencumbered, up-stairs-encumbered,
\* up-stairs-unencumbered (0: in none of the six)
DisplayRank(s) ==
    CASE s.is_elevator /\ s.is_down                                   -> 1
      [] s.is_elevator /\ ~s.is_down                                  -> 2
      [] ~s.is_elevator /\ s.is_down /\ s.is_encumbered = Some(TRUE)   -> 3
      [] ~s.is_elevator /\ s.is_down /\ s.is_encumbered = Some(FALSE)  -> 4
      [] ~s.is_elevator /\ ~s.is_down /\ s.is_encumbered = Some(TRUE)  -> 5
      [] ~s.is_elevator /\ ~s.is_down /\ s.is_encumbered = Some(FALSE) -> 6
      [] OTHER                                                        -> 0

\* C7: the result of get_world_records and of get_slowest_records holds at
\* most 6 splits, no two of one category, in the fixed display order
C7_BoardShape ==
    out.op \in {"get_world_records", "get_slowest_records"} =>
        /\ Len(out.val) <= 6
        /\ \A n \in 1..Len(out.val) : DisplayRank(splits[out.val[n]]) # 0
        /\ \A m, n \in 1..Len(out.val) :
              m < n => DisplayRank(splits[out.val[m]]) < DisplayRank(splits[out.val[n]])

\* C7 witness: a board of three categories was returned
C7_BoardWitness ==
    /\ out.op \in {"get_world_records", "get_slowest_records"}
    /\ Len(out.val) = 3
    /\ DisplayRank(splits[out.val[1]]) = 1
    /\ DisplayRank(splits[out.val[2]]) = 2

\* C8: the split announced by a successful new_split is the split that request
\* inserted, and its record status was computed with that split in the table
C8_AnnouncesInsertedSplit ==
    \A r \in Requests :
        req[r].recent # 0 =>
            /\ req[r].recent = req[r].inserted
            /\ req[r].inserted \in Rows(splits)

UsernameOk == UsernameValidator_validate(vin.user, config) = "Ok"

\* C9 as stated: every submission with duration <= 0 is answered InvalidDuration
C9_NonPositiveDuration ==
    (vout # "none" /\ vin.duration_ms <= 0) => vout = "InvalidDuration"

\* C9 amended: a submission with duration <= 0 is answered InvalidDuration when
\* its user identifier passes UsernameValidator::validate, and InvalidUsername
\* when it does not
C9_NonPositiveDurationAfterUsername ==
    (vout # "none" /\ vin.duration_ms <= 0) =>
        vout = IF UsernameOk THEN "InvalidDuration" ELSE "InvalidUsername"

\* C9 witness: a zero duration from an accepted user was refused
C9_Witness ==
    /\ vout = "InvalidDuration"
    /\ vin.duration_ms = 0
    /\ UsernameOk

\* C10 as stated: every submission with is_elevator and is_encumbered set is
\* answered FieldValidation
C10_ElevatorEncumbered ==
    (vout # "none" /\ vin.is_elevator /\ vin.is_encumbered # None)
        => vout = "FieldValidation"

\* C10 amended: a submission with is_elevator and is_encumbered set is answered
\* FieldValidation when its user identifier and its duration pass their
\* validators; otherwise with the error of the first of the two that fails
C10_ElevatorEncumberedAfterUserAndDuration ==
    (vout # "none" /\ vin.is_elevator /\ vin.is_encumbered # None) =>
        vout = IF ~UsernameOk THEN "InvalidUsername"
               ELSE IF DurationValidator_validate(vin.duration_ms, config) # "Ok"
                    THEN "InvalidDuration"
               ELSE "FieldValidation"

\* C10 witness: an encumbered elevator submission, otherwise valid, was refused
C10_Witness ==
    /\ vout = "FieldValidation"
    /\ vin.is_elevator
    /\ vin.is_encumbered = Some(TRUE)
    /\ UsernameOk

\* the number of a StatusCode
StatusNumber(resp) ==
    CASE resp = "CREATED"               -> 201
      [] resp = "BAD_REQUEST"           -> 400
      [] resp = "INTERNAL_SERVER_ERROR" -> 500
      [] OTHER                          -> 0

\* C11: a new_split request whose insert_split returned DuplicateEntry is
\* answered with a 4xx status (so not with the status of a storage failure)
\* and makes no notification
C11_DuplicateIsClientError ==
    \A r \in Requests :
        (req[r].res = "DuplicateEntry" /\ req[r].pc = "respond") =>
            /\ StatusNumber(req[r].resp) \in 400..499
            /\ req[r].recent = 0
            /\ req[r].delivery = "none"

\* the submission a row was made from
RowData(row) ==
    SplitData(row.user, row.is_down, row.is_elevator, row.duration_ms,
              row.is_encumbered)

\* C12: a request whose submission fails SplitData::validate is answered
\* BAD_REQUEST with the validation message, inserts no row and notifies
\* nobody; the step that refuses it leaves the table as it was; and every row
\* of the table was made from a submission that passes validation
C12_ValidationFailure ==
    /\ [](\A r \in Requests :
            (req[r].pc # "idle" /\ SplitData_validate(req[r].data, config) # "Ok") =>
                /\ req[r].pc = "respond"
                /\ req[r].resp = "BAD_REQUEST"
                /\ req[r].body = <<"Validation failed: ",
                                   SplitData_validate(req[r].data, config)>>
                /\ req[r].res = "none"
                /\ req[r].inserted = 0
                /\ req[r].recent = 0
                /\ req[r].delivery = "none")
    /\ [](\A i \in Rows(splits) :
            SplitData_validate(RowData(splits[i]), config) = "Ok")
    /\ [][\A r \in Requests :
            (req[r].pc = "idle" /\ req'[r].resp = "BAD_REQUEST") => splits' = splits]_vars

\* C12 witness: a submission was refused while the table holds a split
C12_Witness ==
    /\ splits # <<>>
    /\ \E r \in Requests :
          /\ req[r].pc = "respond"
          /\ req[r].resp = "BAD_REQUEST"
          /\ SplitData_validate(req[r].data, config) = "FieldValidation"

\* C13: a request whose insert_split returned Ok is answered CREATED and its
\* row stays in the table, also when the most-recent lookup, the record check
\* or the delivery of the notification failed; the notification step changes
\* neither the table nor the outcome
C13_NotificationFailureIsSilent ==
    /\ [](\A r \in Requests :
            req[r].res = "Ok" =>
                /\ req[r].inserted \in Rows(splits)
                /\ RowData(splits[req[r].inserted]) = req[r].data
                /\ req[r].pc = "respond" =>
                      /\ req[r].resp = "CREATED"
                      /\ req[r].body = "Data inserted successfully!")
    /\ [][\A r \in Requests :
            req[r].pc = "notify" =>
                /\ splits' = splits
                /\ req'[r].pc = "respond" => req'[r].resp = "CREATED"]_vars

\* C13 witness: a request is answered CREATED although the delivery of its
\* notification failed
C13_Witness ==
    \E r \in Requests :
        /\ req[r].pc = "respond"
        /\ req[r].res = "Ok"
        /\ req[r].delivery = "err"
        /\ req[r].resp = "CREATED"

\* the read operations of the store
ReadOps == {"get_all_splits", "get_most_recent_split", "is_world_record",
            "get_world_records", "get_slowest_records"}

\* C14: the identifiers of the rows are distinct and grow with the order of
\* insertion; no step removes or changes a row; a step changes the table only
\* as a successful insert_split, which adds exactly one row, with an
\* identifier above all earlier ones; the read operations change nothing
C14_AppendOnly ==
    /\ [](\A i, j \in Rows(splits) : i < j => splits[i].id < splits[j].id)
    /\ [][/\ \A i \in Rows(splits) : i \in Rows(splits') /\ splits'[i] = splits[i]
          /\ splits' # splits =>
                /\ out'.op = "insert_split"
                /\ out'.val = "Ok"
                /\ Len(splits') = Len(splits) + 1
                /\ \A i \in Rows(splits) : splits'[Len(splits')].id > splits[i].id
          /\ (out'.op = "insert_split" /\ out'.val = "Ok" /\ clock' = clock) =>
                Len(splits') = Len(splits) + 1
          /\ (out'.op \in ReadOps /\ clock' = clock) => splits' = splits]_vars

\* C14 witness: three splits were inserted and the table was then read
C14_Witness ==
    /\ Len(splits) = 3
    /\ splits[3].id = 3
    /\ out.op = "get_all_splits"

\* the rows of user u among the first n that no row of u among them was
\* created after
LatestOf(n, u) ==
    {i \in 1..n : /\ splits[i].user = u
                  /\ \A j \in 1..n : splits[j].user = u =>
                        splits[j].created_at <= splits[i].created_at}

\* C15 as stated: a submission by u with the duration of u's most recent split
\* but another category is not rejected with DuplicateEntry; a rejected
\* submission has the duration and the category of u's most recent split
C15_OtherCategoryNeverDuplicate ==
    \A r \in Decided :
        LET last == LastOf(splits, req[r].seen, req[r].data.user)
        IN  req[r].res = "DuplicateEntry" =>
                /\ last # 0
                /\ splits[last].duration_ms = req[r].data.duration_ms
                /\ SameCategory(splits[last], req[r].data)

\* C15 amended: the category plays no part. A submission by u with duration d
\* is rejected with DuplicateEntry when u has splits and all of u's splits
\* with the latest creation time have duration d, whatever their categories; it
\* is not rejected when none of them has duration d
C15_DurationAloneDecides ==
    \A r \in Decided :
        LET latest == LatestOf(req[r].seen, req[r].data.user)
            d      == req[r].data.duration_ms
        IN  /\ (latest # {} /\ \A i \in latest : splits[i].duration_ms = d)
                  => req[r].res = "DuplicateEntry"
            /\ (\A i \in latest : splits[i].duration_ms # d)
                  => req[r].res = "Ok"

\* C15 witness: a submission was rejected whose user has a single earlier
\* split, of the same duration and of another category
C15_Witness ==
    \E r \in Requests :
        /\ req[r].res = "DuplicateEntry"
        /\ LatestOf(req[r].seen, req[r].data.user) = {1}
        /\ ~SameCategory(splits[1], req[r].data)
        /\ splits[1].duration_ms = req[r].data.duration_ms

\* C16: under a policy with max_username_length >= 0, a non-blank user
\* identifier longer than max_username_length is answered InvalidUsername
C16_LengthBoundFromZero ==
    ( /\ vout \in {"Ok", "InvalidUsername", "InvalidDuration", "FieldValidation"}
      /\ ~TrimIsEmpty(vin.user)
      /\ config.max_username_length >= 0
      /\ Len(vin.user) > config.max_username_length )
        => vout = "InvalidUsername"

DigitValue(c) == CHOOSE d \in 0..9 : DigitChars[d + 1] = c

AllDigits(t) == \A i \in 1..Len(t) : \E d \in 0..9 : DigitChars[d + 1] = t[i]

RECURSIVE NatOf(_)
\* the number a sequence of digits denotes
NatOf(t) ==
    IF t = <<>> THEN 0
    ELSE 10 * NatOf(SubSeq(t, 1, Len(t) - 1)) + DigitValue(t[Len(t)])

\* digits with no zero in front, other than the number 0 itself
Unpadded(t) == AllDigits(t) /\ Len(t) >= 1 /\ (Len(t) > 1 => t[1] # "0")

\* C17: for ms >= 0, with m = ms / 60000, s = (ms / 1000) mod 60 and
\* r = ms mod 1000, format_duration(ms) is m, "m", s in 2 digits, ".", r in
\* 3 digits, "s" when m > 0; s unpadded, ".", r in 3 digits, "s" when m = 0
\* and s > 0; r unpadded, "ms" otherwise; and the three examples
C17_FormatDuration ==
    (vout # <<>> /\ vin.duration_ms >= 0) =>
        LET ms == vin.duration_ms
            m  == ms \div 60000
            s  == (ms \div 1000) % 60
            r  == ms % 1000
            n  == Len(vout)
        IN  /\ m > 0 =>
                  /\ n >= 9
                  /\ Unpadded(SubSeq(vout, 1, n - 8))
                  /\ NatOf(SubSeq(vout, 1, n - 8)) = m
                  /\ vout[n - 7] = "m"
                  /\ AllDigits(SubSeq(vout, n - 6, n - 5))
                  /\ NatOf(SubSeq(vout, n - 6, n - 5)) = s
                  /\ vout[n - 4] = "."
                  /\ AllDigits(SubSeq(vout, n - 3, n - 1))
                  /\ NatOf(SubSeq(vout, n - 3, n - 1)) = r
                  /\ vout[n] = "s"
            /\ (m = 0 /\ s > 0) =>
                  /\ n >= 6
                  /\ Unpadded(SubSeq(vout, 1, n - 5))
                  /\ NatOf(SubSeq(vout, 1, n - 5)) = s
                  /\ vout[n - 4] = "."
                  /\ AllDigits(SubSeq(vout, n - 3, n - 1))
                  /\ NatOf(SubSeq(vout, n - 3, n - 1)) = r
                  /\ vout[n] = "s"
            /\ (m = 0 /\ s = 0) =>
                  /\ n >= 3
                  /\ Unpadded(SubSeq(vout, 1, n - 2))
                  /\ NatOf(SubSeq(vout, 1, n - 2)) = r
                  /\ SubSeq(vout, n - 1, n) = <<"m", "s">>
            /\ ms = 65432 => vout = <<"1", "m", "0", "5", ".", "4", "3", "2", "s">>
            /\ ms = 5000 => vout = <<"5", ".", "0", "0", "0", "s">>
            /\ ms = 42 => vout = <<"4", "2", "m", "s">>

\* C17 witness: a duration above a minute whose seconds and milliseconds both
\* need padding was formatted
C17_Witness ==
    /\ vin.duration_ms = 65432
    /\ vout = <<"1", "m", "0", "5", ".", "4", "3", "2", "s">>

\* the holder of the mutex has a step to take
HolderCanRun ==
    mutex # <<>> =>
        \/ Head(mutex) \in {ReadyHandler, AllSplitsHandler}
        \/ /\ Head(mutex) \in Requests
           /\ req[Head(mutex)].pc \in {"lock", "insert", "notify", "respond"}

\* C18: under fair scheduling the holder of the mutex always has a step to
\* take, and every new_split request, all_splits request and ready event that
\* waits for the mutex eventually holds it, and eventually has completed and
\* released it
C18_EveryWaiterCompletes ==
    /\ []HolderCanRun
    /\ \A r \in Requests :
          /\ (req[r].pc = "lock") ~> Holds(r)
          /\ (req[r].pc # "idle") ~> (req[r].pc = "idle" /\ ~InQueue(r))
    /\ \A p \in {ReadyHandler, AllSplitsHandler} :
          /\ InQueue(p) ~> Holds(p)
          /\ InQueue(p) ~> ~InQueue(p)

\* C18 witness: the two new_split requests, the all_splits request and the
\* ready event all wait for the mutex at once, behind one another
C18_Witness ==
    /\ Len(mutex) = 4
    /\ \A r \in Requests : req[r].pc = "lock"

\* C19: discord_ctx, once set, stays set, and only the ready event sets it; a
\* request whose split was inserted while it was unset is answered CREATED
\* without a notification, and no later notification announces that split; a
\* request whose split was inserted while it was set runs the notification
\* exactly once
C19_ContextLifecycle ==
    /\ [][discord_ctx => discord_ctx']_vars
    /\ [][discord_ctx' # discord_ctx => Holds(ReadyHandler)]_vars
    /\ [](\A r \in Requests :
            (req[r].inserted # 0 /\ req[r].inserted <= quiet) =>
                /\ req[r].pc = "respond"
                /\ req[r].resp = "CREATED"
                /\ req[r].recent = 0
                /\ req[r].delivery = "none")
    /\ [](\A r \in Requests : req[r].recent # 0 => req[r].recent > quiet)
    /\ [][\A r \in Requests :
            /\ (req[r].pc = "insert" /\ req'[r].res = "Ok" /\ discord_ctx)
                  => req'[r].pc = "notify"
            /\ req[r].pc = "notify" => req'[r].pc \in {"notify", "respond"}
            /\ req[r].pc = "respond" => req'[r].pc \in {"respond", "idle"}]_vars

\* the table as it was when it held its first n rows
TableAt(n) == SubSeq(splits, 1, n)

\* C20: the records a board command ends with are the per-category best (for
\* /slowboard, worst) of one state the table was in between the call and the
\* return
C20_BoardIsSnapshot ==
    board.pc = "done" =>
        \E n \in board.from..Len(splits) :
            board.records \in IF board.kind = "wrboard"
                              THEN get_world_records(TableAt(n))
                              ELSE get_slowest_records(TableAt(n))

\* C21: for every persisted split s, get_world_records returns a split of s's
\* category with a duration <= that of s, and get_slowest_records one with a
\* duration >= that of s; a stairs split with is_encumbered unset included
C21_EverySplitOnTheBoards ==
    /\ out.op = "get_world_records" =>
          \A i \in Rows(splits) : \E n \in 1..Len(out.val) :
              /\ SameCategory(splits[out.val[n]], splits[i])
              /\ splits[out.val[n]].duration_ms <= splits[i].duration_ms
    /\ out.op = "get_slowest_records" =>
          \A i \in Rows(splits) : \E n \in 1..Len(out.val) :
              /\ SameCategory(splits[out.val[n]], splits[i])
              /\ splits[out.val[n]].duration_ms >= splits[i].duration_ms

====
